---- MODULE Spec2Model ----
(***************************************************************************)
(* Model of fairylightswithswitch.py: a two-channel (warm/cool) LED driver *)
(* that polls an SPDT mode switch and a potentiometer and bit-bangs an     *)
(* alternating pulse pair on two output pins.                              *)
(*                                                                         *)
(* Numbers.  The program computes in floating point; the model uses fixed  *)
(* point.  Ratios (sine values, linear ratios, gamma-corrected ratios, the *)
(* cool factor) are integers in units of 1/SCALE.  The phase, which the    *)
(* program keeps in radians, is kept in milliseconds of the crossfade      *)
(* cycle: the model's phase p stands for 2*pi*p/crossfade_speed, so that   *)
(* "phase >= 2*pi" reads "phase >= crossfade_speed".  On-durations agree   *)
(* with the float computation to within 1 microsecond.                     *)
(*                                                                         *)
(* Time.  clock is the time in microseconds; ticks_ms() is clock \div 1000.*)
(* Only the sleeps take time.  The run is observed for MaxIter scheduler   *)
(* iterations, within which ticks_ms() does not wrap.                      *)
(***************************************************************************)
EXTENDS Integers, Sequences, FiniteSets, TLC

\* ---------------------------------------------------------------- bounds
MaxIter == 12

\* ------------------------------------------------- configuration constants
SCALE == 10000
crossfade_speed == 5000
ac_freq == 500
cool_brightness_factor == 4500
min_r == 500
max_r == 9500
half_p_us == 500000 \div ac_freq
NUM_STEPS == 3600
POT_FULL == 1023
ADC_MAX == 1024
AO_GRANULARITY == 1
\* variant of CF_GRANULARITY: the granularity of the all-on path
CF_GRANULARITY_One == AO_GRANULARITY
CF_GRANULARITY == 5
YIELD_MS == 1

\* sine_table[i+1] is sin(2*pi*i/NUM_STEPS) in units of 1/SCALE, i in 0..NUM_STEPS-1
sine_table == <<
    0, 17, 35, 52, 70, 87, 105, 122, 140, 157, 175, 192, 209, 227, 244,
    262, 279, 297, 314, 332, 349, 366, 384, 401, 419, 436, 454, 471, 488, 506,
    523, 541, 558, 576, 593, 610, 628, 645, 663, 680, 698, 715, 732, 750, 767,
    785, 802, 819, 837, 854, 872, 889, 906, 924, 941, 958, 976, 993, 1011, 1028,
    1045, 1063, 1080, 1097, 1115, 1132, 1149, 1167, 1184, 1201, 1219, 1236, 1253, 1271, 1288,
    1305, 1323, 1340, 1357, 1374, 1392, 1409, 1426, 1444, 1461, 1478, 1495, 1513, 1530, 1547,
    1564, 1582, 1599, 1616, 1633, 1650, 1668, 1685, 1702, 1719, 1736, 1754, 1771, 1788, 1805,
    1822, 1840, 1857, 1874, 1891, 1908, 1925, 1942, 1959, 1977, 1994, 2011, 2028, 2045, 2062,
    2079, 2096, 2113, 2130, 2147, 2164, 2181, 2198, 2215, 2233, 2250, 2267, 2284, 2300, 2317,
    2334, 2351, 2368, 2385, 2402, 2419, 2436, 2453, 2470, 2487, 2504, 2521, 2538, 2554, 2571,
    2588, 2605, 2622, 2639, 2656, 2672, 2689, 2706, 2723, 2740, 2756, 2773, 2790, 2807, 2823,
    2840, 2857, 2874, 2890, 2907, 2924, 2940, 2957, 2974, 2990, 3007, 3024, 3040, 3057, 3074,
    3090, 3107, 3123, 3140, 3156, 3173, 3190, 3206, 3223, 3239, 3256, 3272, 3289, 3305, 3322,
    3338, 3355, 3371, 3387, 3404, 3420, 3437, 3453, 3469, 3486, 3502, 3518, 3535, 3551, 3567,
    3584, 3600, 3616, 3633, 3649, 3665, 3681, 3697, 3714, 3730, 3746, 3762, 3778, 3795, 3811,
    3827, 3843, 3859, 3875, 3891, 3907, 3923, 3939, 3955, 3971, 3987, 4003, 4019, 4035, 4051,
    4067, 4083, 4099, 4115, 4131, 4147, 4163, 4179, 4195, 4210, 4226, 4242, 4258, 4274, 4289,
    4305, 4321, 4337, 4352, 4368, 4384, 4399, 4415, 4431, 4446, 4462, 4478, 4493, 4509, 4524,
    4540, 4555, 4571, 4586, 4602, 4617, 4633, 4648, 4664, 4679, 4695, 4710, 4726, 4741, 4756,
    4772, 4787, 4802, 4818, 4833, 4848, 4863, 4879, 4894, 4909, 4924, 4939, 4955, 4970, 4985,
    5000, 5015, 5030, 5045, 5060, 5075, 5090, 5105, 5120, 5135, 5150, 5165, 5180, 5195, 5210,
    5225, 5240, 5255, 5270, 5284, 5299, 5314, 5329, 5344, 5358, 5373, 5388, 5402, 5417, 5432,
    5446, 5461, 5476, 5490, 5505, 5519, 5534, 5548, 5563, 5577, 5592, 5606, 5621, 5635, 5650,
    5664, 5678, 5693, 5707, 5721, 5736, 5750, 5764, 5779, 5793, 5807, 5821, 5835, 5850, 5864,
    5878, 5892, 5906, 5920, 5934, 5948, 5962, 5976, 5990, 6004, 6018, 6032, 6046, 6060, 6074,
    6088, 6101, 6115, 6129, 6143, 6157, 6170, 6184, 6198, 6211, 6225, 6239, 6252, 6266, 6280,
    6293, 6307, 6320, 6334, 6347, 6361, 6374, 6388, 6401, 6414, 6428, 6441, 6455, 6468, 6481,
    6494, 6508, 6521, 6534, 6547, 6561, 6574, 6587, 6600, 6613, 6626, 6639, 6652, 6665, 6678,
    6691, 6704, 6717, 6730, 6743, 6756, 6769, 6782, 6794, 6807, 6820, 6833, 6845, 6858, 6871,
    6884, 6896, 6909, 6921, 6934, 6947, 6959, 6972, 6984, 6997, 7009, 7022, 7034, 7046, 7059,
    7071, 7083, 7096, 7108, 7120, 7133, 7145, 7157, 7169, 7181, 7193, 7206, 7218, 7230, 7242,
    7254, 7266, 7278, 7290, 7302, 7314, 7325, 7337, 7349, 7361, 7373, 7385, 7396, 7408, 7420,
    7431, 7443, 7455, 7466, 7478, 7490, 7501, 7513, 7524, 7536, 7547, 7559, 7570, 7581, 7593,
    7604, 7615, 7627, 7638, 7649, 7660, 7672, 7683, 7694, 7705, 7716, 7727, 7738, 7749, 7760,
    7771, 7782, 7793, 7804, 7815, 7826, 7837, 7848, 7859, 7869, 7880, 7891, 7902, 7912, 7923,
    7934, 7944, 7955, 7965, 7976, 7986, 7997, 8007, 8018, 8028, 8039, 8049, 8059, 8070, 8080,
    8090, 8100, 8111, 8121, 8131, 8141, 8151, 8161, 8171, 8181, 8192, 8202, 8211, 8221, 8231,
    8241, 8251, 8261, 8271, 8281, 8290, 8300, 8310, 8320, 8329, 8339, 8348, 8358, 8368, 8377,
    8387, 8396, 8406, 8415, 8425, 8434, 8443, 8453, 8462, 8471, 8480, 8490, 8499, 8508, 8517,
    8526, 8536, 8545, 8554, 8563, 8572, 8581, 8590, 8599, 8607, 8616, 8625, 8634, 8643, 8652,
    8660, 8669, 8678, 8686, 8695, 8704, 8712, 8721, 8729, 8738, 8746, 8755, 8763, 8771, 8780,
    8788, 8796, 8805, 8813, 8821, 8829, 8838, 8846, 8854, 8862, 8870, 8878, 8886, 8894, 8902,
    8910, 8918, 8926, 8934, 8942, 8949, 8957, 8965, 8973, 8980, 8988, 8996, 9003, 9011, 9018,
    9026, 9033, 9041, 9048, 9056, 9063, 9070, 9078, 9085, 9092, 9100, 9107, 9114, 9121, 9128,
    9135, 9143, 9150, 9157, 9164, 9171, 9178, 9184, 9191, 9198, 9205, 9212, 9219, 9225, 9232,
    9239, 9245, 9252, 9259, 9265, 9272, 9278, 9285, 9291, 9298, 9304, 9311, 9317, 9323, 9330,
    9336, 9342, 9348, 9354, 9361, 9367, 9373, 9379, 9385, 9391, 9397, 9403, 9409, 9415, 9421,
    9426, 9432, 9438, 9444, 9449, 9455, 9461, 9466, 9472, 9478, 9483, 9489, 9494, 9500, 9505,
    9511, 9516, 9521, 9527, 9532, 9537, 9542, 9548, 9553, 9558, 9563, 9568, 9573, 9578, 9583,
    9588, 9593, 9598, 9603, 9608, 9613, 9617, 9622, 9627, 9632, 9636, 9641, 9646, 9650, 9655,
    9659, 9664, 9668, 9673, 9677, 9681, 9686, 9690, 9694, 9699, 9703, 9707, 9711, 9715, 9720,
    9724, 9728, 9732, 9736, 9740, 9744, 9748, 9751, 9755, 9759, 9763, 9767, 9770, 9774, 9778,
    9781, 9785, 9789, 9792, 9796, 9799, 9803, 9806, 9810, 9813, 9816, 9820, 9823, 9826, 9829,
    9833, 9836, 9839, 9842, 9845, 9848, 9851, 9854, 9857, 9860, 9863, 9866, 9869, 9871, 9874,
    9877, 9880, 9882, 9885, 9888, 9890, 9893, 9895, 9898, 9900, 9903, 9905, 9907, 9910, 9912,
    9914, 9917, 9919, 9921, 9923, 9925, 9928, 9930, 9932, 9934, 9936, 9938, 9940, 9942, 9943,
    9945, 9947, 9949, 9951, 9952, 9954, 9956, 9957, 9959, 9960, 9962, 9963, 9965, 9966, 9968,
    9969, 9971, 9972, 9973, 9974, 9976, 9977, 9978, 9979, 9980, 9981, 9982, 9983, 9984, 9985,
    9986, 9987, 9988, 9989, 9990, 9990, 9991, 9992, 9993, 9993, 9994, 9995, 9995, 9996, 9996,
    9997, 9997, 9997, 9998, 9998, 9998, 9999, 9999, 9999, 9999, 10000, 10000, 10000, 10000, 10000,
    10000, 10000, 10000, 10000, 10000, 10000, 9999, 9999, 9999, 9999, 9998, 9998, 9998, 9997, 9997,
    9997, 9996, 9996, 9995, 9995, 9994, 9993, 9993, 9992, 9991, 9990, 9990, 9989, 9988, 9987,
    9986, 9985, 9984, 9983, 9982, 9981, 9980, 9979, 9978, 9977, 9976, 9974, 9973, 9972, 9971,
    9969, 9968, 9966, 9965, 9963, 9962, 9960, 9959, 9957, 9956, 9954, 9952, 9951, 9949, 9947,
    9945, 9943, 9942, 9940, 9938, 9936, 9934, 9932, 9930, 9928, 9925, 9923, 9921, 9919, 9917,
    9914, 9912, 9910, 9907, 9905, 9903, 9900, 9898, 9895, 9893, 9890, 9888, 9885, 9882, 9880,
    9877, 9874, 9871, 9869, 9866, 9863, 9860, 9857, 9854, 9851, 9848, 9845, 9842, 9839, 9836,
    9833, 9829, 9826, 9823, 9820, 9816, 9813, 9810, 9806, 9803, 9799, 9796, 9792, 9789, 9785,
    9781, 9778, 9774, 9770, 9767, 9763, 9759, 9755, 9751, 9748, 9744, 9740, 9736, 9732, 9728,
    9724, 9720, 9715, 9711, 9707, 9703, 9699, 9694, 9690, 9686, 9681, 9677, 9673, 9668, 9664,
    9659, 9655, 9650, 9646, 9641, 9636, 9632, 9627, 9622, 9617, 9613, 9608, 9603, 9598, 9593,
    9588, 9583, 9578, 9573, 9568, 9563, 9558, 9553, 9548, 9542, 9537, 9532, 9527, 9521, 9516,
    9511, 9505, 9500, 9494, 9489, 9483, 9478, 9472, 9466, 9461, 9455, 9449, 9444, 9438, 9432,
    9426, 9421, 9415, 9409, 9403, 9397, 9391, 9385, 9379, 9373, 9367, 9361, 9354, 9348, 9342,
    9336, 9330, 9323, 9317, 9311, 9304, 9298, 9291, 9285, 9278, 9272, 9265, 9259, 9252, 9245,
    9239, 9232, 9225, 9219, 9212, 9205, 9198, 9191, 9184, 9178, 9171, 9164, 9157, 9150, 9143,
    9135, 9128, 9121, 9114, 9107, 9100, 9092, 9085, 9078, 9070, 9063, 9056, 9048, 9041, 9033,
    9026, 9018, 9011, 9003, 8996, 8988, 8980, 8973, 8965, 8957, 8949, 8942, 8934, 8926, 8918,
    8910, 8902, 8894, 8886, 8878, 8870, 8862, 8854, 8846, 8838, 8829, 8821, 8813, 8805, 8796,
    8788, 8780, 8771, 8763, 8755, 8746, 8738, 8729, 8721, 8712, 8704, 8695, 8686, 8678, 8669,
    8660, 8652, 8643, 8634, 8625, 8616, 8607, 8599, 8590, 8581, 8572, 8563, 8554, 8545, 8536,
    8526, 8517, 8508, 8499, 8490, 8480, 8471, 8462, 8453, 8443, 8434, 8425, 8415, 8406, 8396,
    8387, 8377, 8368, 8358, 8348, 8339, 8329, 8320, 8310, 8300, 8290, 8281, 8271, 8261, 8251,
    8241, 8231, 8221, 8211, 8202, 8192, 8181, 8171, 8161, 8151, 8141, 8131, 8121, 8111, 8100,
    8090, 8080, 8070, 8059, 8049, 8039, 8028, 8018, 8007, 7997, 7986, 7976, 7965, 7955, 7944,
    7934, 7923, 7912, 7902, 7891, 7880, 7869, 7859, 7848, 7837, 7826, 7815, 7804, 7793, 7782,
    7771, 7760, 7749, 7738, 7727, 7716, 7705, 7694, 7683, 7672, 7660, 7649, 7638, 7627, 7615,
    7604, 7593, 7581, 7570, 7559, 7547, 7536, 7524, 7513, 7501, 7490, 7478, 7466, 7455, 7443,
    7431, 7420, 7408, 7396, 7385, 7373, 7361, 7349, 7337, 7325, 7314, 7302, 7290, 7278, 7266,
    7254, 7242, 7230, 7218, 7206, 7193, 7181, 7169, 7157, 7145, 7133, 7120, 7108, 7096, 7083,
    7071, 7059, 7046, 7034, 7022, 7009, 6997, 6984, 6972, 6959, 6947, 6934, 6921, 6909, 6896,
    6884, 6871, 6858, 6845, 6833, 6820, 6807, 6794, 6782, 6769, 6756, 6743, 6730, 6717, 6704,
    6691, 6678, 6665, 6652, 6639, 6626, 6613, 6600, 6587, 6574, 6561, 6547, 6534, 6521, 6508,
    6494, 6481, 6468, 6455, 6441, 6428, 6414, 6401, 6388, 6374, 6361, 6347, 6334, 6320, 6307,
    6293, 6280, 6266, 6252, 6239, 6225, 6211, 6198, 6184, 6170, 6157, 6143, 6129, 6115, 6101,
    6088, 6074, 6060, 6046, 6032, 6018, 6004, 5990, 5976, 5962, 5948, 5934, 5920, 5906, 5892,
    5878, 5864, 5850, 5835, 5821, 5807, 5793, 5779, 5764, 5750, 5736, 5721, 5707, 5693, 5678,
    5664, 5650, 5635, 5621, 5606, 5592, 5577, 5563, 5548, 5534, 5519, 5505, 5490, 5476, 5461,
    5446, 5432, 5417, 5402, 5388, 5373, 5358, 5344, 5329, 5314, 5299, 5284, 5270, 5255, 5240,
    5225, 5210, 5195, 5180, 5165, 5150, 5135, 5120, 5105, 5090, 5075, 5060, 5045, 5030, 5015,
    5000, 4985, 4970, 4955, 4939, 4924, 4909, 4894, 4879, 4863, 4848, 4833, 4818, 4802, 4787,
    4772, 4756, 4741, 4726, 4710, 4695, 4679, 4664, 4648, 4633, 4617, 4602, 4586, 4571, 4555,
    4540, 4524, 4509, 4493, 4478, 4462, 4446, 4431, 4415, 4399, 4384, 4368, 4352, 4337, 4321,
    4305, 4289, 4274, 4258, 4242, 4226, 4210, 4195, 4179, 4163, 4147, 4131, 4115, 4099, 4083,
    4067, 4051, 4035, 4019, 4003, 3987, 3971, 3955, 3939, 3923, 3907, 3891, 3875, 3859, 3843,
    3827, 3811, 3795, 3778, 3762, 3746, 3730, 3714, 3697, 3681, 3665, 3649, 3633, 3616, 3600,
    3584, 3567, 3551, 3535, 3518, 3502, 3486, 3469, 3453, 3437, 3420, 3404, 3387, 3371, 3355,
    3338, 3322, 3305, 3289, 3272, 3256, 3239, 3223, 3206, 3190, 3173, 3156, 3140, 3123, 3107,
    3090, 3074, 3057, 3040, 3024, 3007, 2990, 2974, 2957, 2940, 2924, 2907, 2890, 2874, 2857,
    2840, 2823, 2807, 2790, 2773, 2756, 2740, 2723, 2706, 2689, 2672, 2656, 2639, 2622, 2605,
    2588, 2571, 2554, 2538, 2521, 2504, 2487, 2470, 2453, 2436, 2419, 2402, 2385, 2368, 2351,
    2334, 2317, 2300, 2284, 2267, 2250, 2233, 2215, 2198, 2181, 2164, 2147, 2130, 2113, 2096,
    2079, 2062, 2045, 2028, 2011, 1994, 1977, 1959, 1942, 1925, 1908, 1891, 1874, 1857, 1840,
    1822, 1805, 1788, 1771, 1754, 1736, 1719, 1702, 1685, 1668, 1650, 1633, 1616, 1599, 1582,
    1564, 1547, 1530, 1513, 1495, 1478, 1461, 1444, 1426, 1409, 1392, 1374, 1357, 1340, 1323,
    1305, 1288, 1271, 1253, 1236, 1219, 1201, 1184, 1167, 1149, 1132, 1115, 1097, 1080, 1063,
    1045, 1028, 1011, 993, 976, 958, 941, 924, 906, 889, 872, 854, 837, 819, 802,
    785, 767, 750, 732, 715, 698, 680, 663, 645, 628, 610, 593, 576, 558, 541,
    523, 506, 488, 471, 454, 436, 419, 401, 384, 366, 349, 332, 314, 297, 279,
    262, 244, 227, 209, 192, 175, 157, 140, 122, 105, 87, 70, 52, 35, 17,
    0, -17, -35, -52, -70, -87, -105, -122, -140, -157, -175, -192, -209, -227, -244,
    -262, -279, -297, -314, -332, -349, -366, -384, -401, -419, -436, -454, -471, -488, -506,
    -523, -541, -558, -576, -593, -610, -628, -645, -663, -680, -698, -715, -732, -750, -767,
    -785, -802, -819, -837, -854, -872, -889, -906, -924, -941, -958, -976, -993, -1011, -1028,
    -1045, -1063, -1080, -1097, -1115, -1132, -1149, -1167, -1184, -1201, -1219, -1236, -1253, -1271, -1288,
    -1305, -1323, -1340, -1357, -1374, -1392, -1409, -1426, -1444, -1461, -1478, -1495, -1513, -1530, -1547,
    -1564, -1582, -1599, -1616, -1633, -1650, -1668, -1685, -1702, -1719, -1736, -1754, -1771, -1788, -1805,
    -1822, -1840, -1857, -1874, -1891, -1908, -1925, -1942, -1959, -1977, -1994, -2011, -2028, -2045, -2062,
    -2079, -2096, -2113, -2130, -2147, -2164, -2181, -2198, -2215, -2233, -2250, -2267, -2284, -2300, -2317,
    -2334, -2351, -2368, -2385, -2402, -2419, -2436, -2453, -2470, -2487, -2504, -2521, -2538, -2554, -2571,
    -2588, -2605, -2622, -2639, -2656, -2672, -2689, -2706, -2723, -2740, -2756, -2773, -2790, -2807, -2823,
    -2840, -2857, -2874, -2890, -2907, -2924, -2940, -2957, -2974, -2990, -3007, -3024, -3040, -3057, -3074,
    -3090, -3107, -3123, -3140, -3156, -3173, -3190, -3206, -3223, -3239, -3256, -3272, -3289, -3305, -3322,
    -3338, -3355, -3371, -3387, -3404, -3420, -3437, -3453, -3469, -3486, -3502, -3518, -3535, -3551, -3567,
    -3584, -3600, -3616, -3633, -3649, -3665, -3681, -3697, -3714, -3730, -3746, -3762, -3778, -3795, -3811,
    -3827, -3843, -3859, -3875, -3891, -3907, -3923, -3939, -3955, -3971, -3987, -4003, -4019, -4035, -4051,
    -4067, -4083, -4099, -4115, -4131, -4147, -4163, -4179, -4195, -4210, -4226, -4242, -4258, -4274, -4289,
    -4305, -4321, -4337, -4352, -4368, -4384, -4399, -4415, -4431, -4446, -4462, -4478, -4493, -4509, -4524,
    -4540, -4555, -4571, -4586, -4602, -4617, -4633, -4648, -4664, -4679, -4695, -4710, -4726, -4741, -4756,
    -4772, -4787, -4802, -4818, -4833, -4848, -4863, -4879, -4894, -4909, -4924, -4939, -4955, -4970, -4985,
    -5000, -5015, -5030, -5045, -5060, -5075, -5090, -5105, -5120, -5135, -5150, -5165, -5180, -5195, -5210,
    -5225, -5240, -5255, -5270, -5284, -5299, -5314, -5329, -5344, -5358, -5373, -5388, -5402, -5417, -5432,
    -5446, -5461, -5476, -5490, -5505, -5519, -5534, -5548, -5563, -5577, -5592, -5606, -5621, -5635, -5650,
    -5664, -5678, -5693, -5707, -5721, -5736, -5750, -5764, -5779, -5793, -5807, -5821, -5835, -5850, -5864,
    -5878, -5892, -5906, -5920, -5934, -5948, -5962, -5976, -5990, -6004, -6018, -6032, -6046, -6060, -6074,
    -6088, -6101, -6115, -6129, -6143, -6157, -6170, -6184, -6198, -6211, -6225, -6239, -6252, -6266, -6280,
    -6293, -6307, -6320, -6334, -6347, -6361, -6374, -6388, -6401, -6414, -6428, -6441, -6455, -6468, -6481,
    -6494, -6508, -6521, -6534, -6547, -6561, -6574, -6587, -6600, -6613, -6626, -6639, -6652, -6665, -6678,
    -6691, -6704, -6717, -6730, -6743, -6756, -6769, -6782, -6794, -6807, -6820, -6833, -6845, -6858, -6871,
    -6884, -6896, -6909, -6921, -6934, -6947, -6959, -6972, -6984, -6997, -7009, -7022, -7034, -7046, -7059,
    -7071, -7083, -7096, -7108, -7120, -7133, -7145, -7157, -7169, -7181, -7193, -7206, -7218, -7230, -7242,
    -7254, -7266, -7278, -7290, -7302, -7314, -7325, -7337, -7349, -7361, -7373, -7385, -7396, -7408, -7420,
    -7431, -7443, -7455, -7466, -7478, -7490, -7501, -7513, -7524, -7536, -7547, -7559, -7570, -7581, -7593,
    -7604, -7615, -7627, -7638, -7649, -7660, -7672, -7683, -7694, -7705, -7716, -7727, -7738, -7749, -7760,
    -7771, -7782, -7793, -7804, -7815, -7826, -7837, -7848, -7859, -7869, -7880, -7891, -7902, -7912, -7923,
    -7934, -7944, -7955, -7965, -7976, -7986, -7997, -8007, -8018, -8028, -8039, -8049, -8059, -8070, -8080,
    -8090, -8100, -8111, -8121, -8131, -8141, -8151, -8161, -8171, -8181, -8192, -8202, -8211, -8221, -8231,
    -8241, -8251, -8261, -8271, -8281, -8290, -8300, -8310, -8320, -8329, -8339, -8348, -8358, -8368, -8377,
    -8387, -8396, -8406, -8415, -8425, -8434, -8443, -8453, -8462, -8471, -8480, -8490, -8499, -8508, -8517,
    -8526, -8536, -8545, -8554, -8563, -8572, -8581, -8590, -8599, -8607, -8616, -8625, -8634, -8643, -8652,
    -8660, -8669, -8678, -8686, -8695, -8704, -8712, -8721, -8729, -8738, -8746, -8755, -8763, -8771, -8780,
    -8788, -8796, -8805, -8813, -8821, -8829, -8838, -8846, -8854, -8862, -8870, -8878, -8886, -8894, -8902,
    -8910, -8918, -8926, -8934, -8942, -8949, -8957, -8965, -8973, -8980, -8988, -8996, -9003, -9011, -9018,
    -9026, -9033, -9041, -9048, -9056, -9063, -9070, -9078, -9085, -9092, -9100, -9107, -9114, -9121, -9128,
    -9135, -9143, -9150, -9157, -9164, -9171, -9178, -9184, -9191, -9198, -9205, -9212, -9219, -9225, -9232,
    -9239, -9245, -9252, -9259, -9265, -9272, -9278, -9285, -9291, -9298, -9304, -9311, -9317, -9323, -9330,
    -9336, -9342, -9348, -9354, -9361, -9367, -9373, -9379, -9385, -9391, -9397, -9403, -9409, -9415, -9421,
    -9426, -9432, -9438, -9444, -9449, -9455, -9461, -9466, -9472, -9478, -9483, -9489, -9494, -9500, -9505,
    -9511, -9516, -9521, -9527, -9532, -9537, -9542, -9548, -9553, -9558, -9563, -9568, -9573, -9578, -9583,
    -9588, -9593, -9598, -9603, -9608, -9613, -9617, -9622, -9627, -9632, -9636, -9641, -9646, -9650, -9655,
    -9659, -9664, -9668, -9673, -9677, -9681, -9686, -9690, -9694, -9699, -9703, -9707, -9711, -9715, -9720,
    -9724, -9728, -9732, -9736, -9740, -9744, -9748, -9751, -9755, -9759, -9763, -9767, -9770, -9774, -9778,
    -9781, -9785, -9789, -9792, -9796, -9799, -9803, -9806, -9810, -9813, -9816, -9820, -9823, -9826, -9829,
    -9833, -9836, -9839, -9842, -9845, -9848, -9851, -9854, -9857, -9860, -9863, -9866, -9869, -9871, -9874,
    -9877, -9880, -9882, -9885, -9888, -9890, -9893, -9895, -9898, -9900, -9903, -9905, -9907, -9910, -9912,
    -9914, -9917, -9919, -9921, -9923, -9925, -9928, -9930, -9932, -9934, -9936, -9938, -9940, -9942, -9943,
    -9945, -9947, -9949, -9951, -9952, -9954, -9956, -9957, -9959, -9960, -9962, -9963, -9965, -9966, -9968,
    -9969, -9971, -9972, -9973, -9974, -9976, -9977, -9978, -9979, -9980, -9981, -9982, -9983, -9984, -9985,
    -9986, -9987, -9988, -9989, -9990, -9990, -9991, -9992, -9993, -9993, -9994, -9995, -9995, -9996, -9996,
    -9997, -9997, -9997, -9998, -9998, -9998, -9999, -9999, -9999, -9999, -10000, -10000, -10000, -10000, -10000,
    -10000, -10000, -10000, -10000, -10000, -10000, -9999, -9999, -9999, -9999, -9998, -9998, -9998, -9997, -9997,
    -9997, -9996, -9996, -9995, -9995, -9994, -9993, -9993, -9992, -9991, -9990, -9990, -9989, -9988, -9987,
    -9986, -9985, -9984, -9983, -9982, -9981, -9980, -9979, -9978, -9977, -9976, -9974, -9973, -9972, -9971,
    -9969, -9968, -9966, -9965, -9963, -9962, -9960, -9959, -9957, -9956, -9954, -9952, -9951, -9949, -9947,
    -9945, -9943, -9942, -9940, -9938, -9936, -9934, -9932, -9930, -9928, -9925, -9923, -9921, -9919, -9917,
    -9914, -9912, -9910, -9907, -9905, -9903, -9900, -9898, -9895, -9893, -9890, -9888, -9885, -9882, -9880,
    -9877, -9874, -9871, -9869, -9866, -9863, -9860, -9857, -9854, -9851, -9848, -9845, -9842, -9839, -9836,
    -9833, -9829, -9826, -9823, -9820, -9816, -9813, -9810, -9806, -9803, -9799, -9796, -9792, -9789, -9785,
    -9781, -9778, -9774, -9770, -9767, -9763, -9759, -9755, -9751, -9748, -9744, -9740, -9736, -9732, -9728,
    -9724, -9720, -9715, -9711, -9707, -9703, -9699, -9694, -9690, -9686, -9681, -9677, -9673, -9668, -9664,
    -9659, -9655, -9650, -9646, -9641, -9636, -9632, -9627, -9622, -9617, -9613, -9608, -9603, -9598, -9593,
    -9588, -9583, -9578, -9573, -9568, -9563, -9558, -9553, -9548, -9542, -9537, -9532, -9527, -9521, -9516,
    -9511, -9505, -9500, -9494, -9489, -9483, -9478, -9472, -9466, -9461, -9455, -9449, -9444, -9438, -9432,
    -9426, -9421, -9415, -9409, -9403, -9397, -9391, -9385, -9379, -9373, -9367, -9361, -9354, -9348, -9342,
    -9336, -9330, -9323, -9317, -9311, -9304, -9298, -9291, -9285, -9278, -9272, -9265, -9259, -9252, -9245,
    -9239, -9232, -9225, -9219, -9212, -9205, -9198, -9191, -9184, -9178, -9171, -9164, -9157, -9150, -9143,
    -9135, -9128, -9121, -9114, -9107, -9100, -9092, -9085, -9078, -9070, -9063, -9056, -9048, -9041, -9033,
    -9026, -9018, -9011, -9003, -8996, -8988, -8980, -8973, -8965, -8957, -8949, -8942, -8934, -8926, -8918,
    -8910, -8902, -8894, -8886, -8878, -8870, -8862, -8854, -8846, -8838, -8829, -8821, -8813, -8805, -8796,
    -8788, -8780, -8771, -8763, -8755, -8746, -8738, -8729, -8721, -8712, -8704, -8695, -8686, -8678, -8669,
    -8660, -8652, -8643, -8634, -8625, -8616, -8607, -8599, -8590, -8581, -8572, -8563, -8554, -8545, -8536,
    -8526, -8517, -8508, -8499, -8490, -8480, -8471, -8462, -8453, -8443, -8434, -8425, -8415, -8406, -8396,
    -8387, -8377, -8368, -8358, -8348, -8339, -8329, -8320, -8310, -8300, -8290, -8281, -8271, -8261, -8251,
    -8241, -8231, -8221, -8211, -8202, -8192, -8181, -8171, -8161, -8151, -8141, -8131, -8121, -8111, -8100,
    -8090, -8080, -8070, -8059, -8049, -8039, -8028, -8018, -8007, -7997, -7986, -7976, -7965, -7955, -7944,
    -7934, -7923, -7912, -7902, -7891, -7880, -7869, -7859, -7848, -7837, -7826, -7815, -7804, -7793, -7782,
    -7771, -7760, -7749, -7738, -7727, -7716, -7705, -7694, -7683, -7672, -7660, -7649, -7638, -7627, -7615,
    -7604, -7593, -7581, -7570, -7559, -7547, -7536, -7524, -7513, -7501, -7490, -7478, -7466, -7455, -7443,
    -7431, -7420, -7408, -7396, -7385, -7373, -7361, -7349, -7337, -7325, -7314, -7302, -7290, -7278, -7266,
    -7254, -7242, -7230, -7218, -7206, -7193, -7181, -7169, -7157, -7145, -7133, -7120, -7108, -7096, -7083,
    -7071, -7059, -7046, -7034, -7022, -7009, -6997, -6984, -6972, -6959, -6947, -6934, -6921, -6909, -6896,
    -6884, -6871, -6858, -6845, -6833, -6820, -6807, -6794, -6782, -6769, -6756, -6743, -6730, -6717, -6704,
    -6691, -6678, -6665, -6652, -6639, -6626, -6613, -6600, -6587, -6574, -6561, -6547, -6534, -6521, -6508,
    -6494, -6481, -6468, -6455, -6441, -6428, -6414, -6401, -6388, -6374, -6361, -6347, -6334, -6320, -6307,
    -6293, -6280, -6266, -6252, -6239, -6225, -6211, -6198, -6184, -6170, -6157, -6143, -6129, -6115, -6101,
    -6088, -6074, -6060, -6046, -6032, -6018, -6004, -5990, -5976, -5962, -5948, -5934, -5920, -5906, -5892,
    -5878, -5864, -5850, -5835, -5821, -5807, -5793, -5779, -5764, -5750, -5736, -5721, -5707, -5693, -5678,
    -5664, -5650, -5635, -5621, -5606, -5592, -5577, -5563, -5548, -5534, -5519, -5505, -5490, -5476, -5461,
    -5446, -5432, -5417, -5402, -5388, -5373, -5358, -5344, -5329, -5314, -5299, -5284, -5270, -5255, -5240,
    -5225, -5210, -5195, -5180, -5165, -5150, -5135, -5120, -5105, -5090, -5075, -5060, -5045, -5030, -5015,
    -5000, -4985, -4970, -4955, -4939, -4924, -4909, -4894, -4879, -4863, -4848, -4833, -4818, -4802, -4787,
    -4772, -4756, -4741, -4726, -4710, -4695, -4679, -4664, -4648, -4633, -4617, -4602, -4586, -4571, -4555,
    -4540, -4524, -4509, -4493, -4478, -4462, -4446, -4431, -4415, -4399, -4384, -4368, -4352, -4337, -4321,
    -4305, -4289, -4274, -4258, -4242, -4226, -4210, -4195, -4179, -4163, -4147, -4131, -4115, -4099, -4083,
    -4067, -4051, -4035, -4019, -4003, -3987, -3971, -3955, -3939, -3923, -3907, -3891, -3875, -3859, -3843,
    -3827, -3811, -3795, -3778, -3762, -3746, -3730, -3714, -3697, -3681, -3665, -3649, -3633, -3616, -3600,
    -3584, -3567, -3551, -3535, -3518, -3502, -3486, -3469, -3453, -3437, -3420, -3404, -3387, -3371, -3355,
    -3338, -3322, -3305, -3289, -3272, -3256, -3239, -3223, -3206, -3190, -3173, -3156, -3140, -3123, -3107,
    -3090, -3074, -3057, -3040, -3024, -3007, -2990, -2974, -2957, -2940, -2924, -2907, -2890, -2874, -2857,
    -2840, -2823, -2807, -2790, -2773, -2756, -2740, -2723, -2706, -2689, -2672, -2656, -2639, -2622, -2605,
    -2588, -2571, -2554, -2538, -2521, -2504, -2487, -2470, -2453, -2436, -2419, -2402, -2385, -2368, -2351,
    -2334, -2317, -2300, -2284, -2267, -2250, -2233, -2215, -2198, -2181, -2164, -2147, -2130, -2113, -2096,
    -2079, -2062, -2045, -2028, -2011, -1994, -1977, -1959, -1942, -1925, -1908, -1891, -1874, -1857, -1840,
    -1822, -1805, -1788, -1771, -1754, -1736, -1719, -1702, -1685, -1668, -1650, -1633, -1616, -1599, -1582,
    -1564, -1547, -1530, -1513, -1495, -1478, -1461, -1444, -1426, -1409, -1392, -1374, -1357, -1340, -1323,
    -1305, -1288, -1271, -1253, -1236, -1219, -1201, -1184, -1167, -1149, -1132, -1115, -1097, -1080, -1063,
    -1045, -1028, -1011, -993, -976, -958, -941, -924, -906, -889, -872, -854, -837, -819, -802,
    -785, -767, -750, -732, -715, -698, -680, -663, -645, -628, -610, -593, -576, -558, -541,
    -523, -506, -488, -471, -454, -436, -419, -401, -384, -366, -349, -332, -314, -297, -279,
    -262, -244, -227, -209, -192, -175, -157, -140, -122, -105, -87, -70, -52, -35, -17
>>

\* ------------------------------------------------------- arithmetic helpers
\* a / b rounded to the nearest integer (a >= 0, b > 0)
RoundDiv(a, b) == (2 * a + b) \div (2 * b)

RECURSIVE SqrtSearch(_, _, _)
SqrtSearch(n, lo, hi) ==
    IF lo >= hi THEN lo
    ELSE LET mid == (lo + hi + 1) \div 2
         IN  IF mid * mid <= n THEN SqrtSearch(n, mid, hi)
                               ELSE SqrtSearch(n, lo, mid - 1)

\* floor of the square root of n, 0 <= n <= 2 * SCALE * SCALE
ISqrt(n) == SqrtSearch(n, 0, 2 * SCALE)

\* ---------------------------------------------------------- pure functions
\* variant of phase_to_step: neither of the two modulo operations
phase_to_step_NoMod(p) == (p * NUM_STEPS) \div crossfade_speed

\* phase_to_step = lambda p: int((p % (2*pi)) * NUM_STEPS / (2*pi)) % NUM_STEPS
phase_to_step(p) ==
    (((p % crossfade_speed) * NUM_STEPS) \div crossfade_speed) % NUM_STEPS

\* warm_linear = min_r + max_r * (1.0 + sin_val) / 2
WarmLinear(sv) == min_r + RoundDiv(max_r * (SCALE + sv), 2 * SCALE)

\* variant of CoolLinear: the warm expression copied without flipping the sign
CoolLinear_Copied(sv) == min_r + RoundDiv(max_r * (SCALE + sv), 2 * SCALE)

\* cool_linear = min_r + max_r * (1.0 - sin_val) / 2
CoolLinear(sv) == min_r + RoundDiv(max_r * (SCALE - sv), 2 * SCALE)

\* pow(x, gamma) with gamma = 1.5: x * sqrt(x)
PowGamma(x) == RoundDiv(x * ISqrt(x * SCALE), SCALE)

\* warm_ratio = pow(warm_linear, gamma)
WarmRatio(lin) == PowGamma(lin)

\* cool_ratio = pow(cool_linear, gamma) * cool_brightness_factor
CoolRatio(lin) == RoundDiv(PowGamma(lin) * cool_brightness_factor, SCALE)

\* variant of OnUs: the pot reading divided by 1000.0 instead of 1023.0
OnUs_Div1000(half, ratio, pot) ==
    ((half \div 10) * ratio * pot) \div ((SCALE \div 10) * 1000)

\* int(half_period_us * ratio * pot_multiplier), pot_multiplier = pot / 1023.0
\* (half_period_us and SCALE are both divided by 10 to stay within 32 bits)
OnUs(half, ratio, pot) ==
    ((half \div 10) * ratio * pot) \div ((SCALE \div 10) * POT_FULL)

\* utime.ticks_ms()
TicksMs(us) == us \div 1000

\* utime.ticks_diff(a, b), no wrap within the observed run
TicksDiff(a, b) == a - b

\* values POT_PIN.read() returns in the model: the ends of the ADC range,
\* the two readings around half scale, and full scale of the divisor
PotReadings == {0, 1, 511, 512, POT_FULL, ADC_MAX}

\* values ticks_ms() may have when the script starts (arbitrary reference)
BootTicks == {0, 7, 1250, 4996, 12000}

\* an elapsed time of more than two crossfade cycles, in ms
LongPause == 12000

\* ------------------------------------------------------------------- state
VARIABLES
    pc,            \* position of the single thread of control
    clock,         \* time in microseconds
    iter,          \* completed scheduler iterations
    SWITCH_PIN,    \* electrical level of the SPDT line (1 = HIGH)
    IN1, IN2,      \* output pin levels (warm, cool)
    current_mode, phase, last_step,   \* globals
    now, new_mode, \* main-loop variables
    sw_read,       \* the level SWITCH_PIN.value() returned at the last poll
    committed,     \* this iteration took the branch of line 108
    caller,        \* which update path is running: "none", "crossfade", "all_on"
    upd_now,       \* the local `now` of the running update function
    pot_raw, sin_val, warm_linear, cool_linear,   \* locals of the last update
    w_on, c_on,    \* arguments of alternate_polarity
    waits,         \* arguments of the sleep_us calls of the current driver call
    step,          \* the table index of the last crossfade update
    diag,          \* the modes printed so far
    transitions,   \* number of times the branch of line 108 was taken
    sw_changed_at, \* since when (clock) the switch level differs from the
                   \* level last polled; -1 while it does not differ
    last_fire,     \* ticks_ms() of the last crossfade recomputation, -1: none
    t0             \* ticks_ms() when phase was last set to 0 (lines 34, 110)

vars == << pc, clock, iter, SWITCH_PIN, IN1, IN2, current_mode, phase,
           last_step, now, new_mode, sw_read, committed, caller, upd_now,
           pot_raw, sin_val, warm_linear, cool_linear, step, w_on, c_on, waits,
           diag, transitions, sw_changed_at, last_fire, t0 >>

globals == << current_mode, phase, last_step >>
pins    == << IN1, IN2 >>
loopv   == << now, new_mode, sw_read, committed >>
updv    == << upd_now, pot_raw, sin_val, warm_linear, cool_linear, step >>
drvargs == << w_on, c_on >>
hist    == << sw_changed_at, last_fire, t0 >>

Init ==
    /\ pc = "poll"
    /\ clock \in {1000 * b : b \in BootTicks}
    /\ iter = 0
    /\ SWITCH_PIN \in {0, 1}
    /\ IN1 = 0 /\ IN2 = 0
    /\ current_mode = 0
    /\ phase = 0
    /\ last_step = 0
    /\ now = 0 /\ new_mode = 0 /\ sw_read = 1 /\ committed = FALSE
    /\ caller = "none"
    /\ upd_now = 0 /\ pot_raw = 0 /\ sin_val = 0
    /\ warm_linear = 0 /\ cool_linear = 0
    /\ w_on = 0 /\ c_on = 0
    /\ waits = << >>
    /\ diag = << >>
    /\ transitions = 0
    /\ step = 0
    /\ sw_changed_at = (IF SWITCH_PIN = sw_read THEN -1 ELSE clock)
    /\ last_fire = -1
    /\ t0 = TicksMs(clock)

\* ------------------------------------------------------------- environment
\* the SPDT switch is thrown
SwitchFlip ==
    /\ SWITCH_PIN' = 1 - SWITCH_PIN
    /\ sw_changed_at' = (IF SWITCH_PIN' = sw_read THEN -1 ELSE clock)
    /\ UNCHANGED << pc, clock, iter, pins, globals, loopv, caller, updv,
                    drvargs, waits, diag,
                    transitions, last_fire, t0 >>

\* --------------------------------------------------------------- main loop
\* variant of Poll: a level counts only when it was read twice in a row
Poll_Debounced ==
    /\ pc = "poll"
    /\ now' = TicksMs(clock)
    /\ sw_read' = SWITCH_PIN
    /\ new_mode' = (IF SWITCH_PIN = sw_read
                    THEN (IF SWITCH_PIN = 1 THEN 0 ELSE 1)
                    ELSE current_mode)
    /\ committed' = FALSE
    /\ sw_changed_at' = -1
    /\ caller' = "none"
    /\ pc' = (IF new_mode' # current_mode THEN "commit" ELSE "dispatch")
    /\ UNCHANGED << clock, iter, SWITCH_PIN, pins, globals, updv, drvargs,
                    waits, diag, transitions, last_fire, t0 >>

\* variant of Poll: the print of line 113 outside the if of line 108
Poll_PrintAlways ==
    /\ pc = "poll"
    /\ now' = TicksMs(clock)
    /\ sw_read' = SWITCH_PIN
    /\ new_mode' = (IF SWITCH_PIN = 1 THEN 0 ELSE 1)
    /\ committed' = FALSE
    /\ sw_changed_at' = -1
    /\ caller' = "none"
    /\ pc' = (IF new_mode' # current_mode THEN "commit" ELSE "print")
    /\ UNCHANGED << clock, iter, SWITCH_PIN, pins, globals, updv, drvargs,
                    waits, diag, transitions, last_fire, t0 >>

\* lines 105-108: now = ticks_ms(); new_mode = 0 if SWITCH_PIN.value() == 1 else 1
Poll ==
    /\ pc = "poll"
    /\ now' = TicksMs(clock)
    /\ sw_read' = SWITCH_PIN
    /\ new_mode' = (IF SWITCH_PIN = 1 THEN 0 ELSE 1)
    /\ committed' = FALSE
    /\ sw_changed_at' = -1
    /\ caller' = "none"
    /\ pc' = (IF new_mode' # current_mode THEN "commit" ELSE "dispatch")
    /\ UNCHANGED << clock, iter, SWITCH_PIN, pins, globals, updv, drvargs,
                    waits, diag,
                    transitions, last_fire, t0 >>

\* variant of Commit: line 110 (phase = 0.0) missing
Commit_NoPhaseReset ==
    /\ pc = "commit"
    /\ current_mode' = new_mode
    /\ last_step' = now
    /\ committed' = TRUE
    /\ t0' = now
    /\ transitions' = transitions + 1
    /\ pc' = "off1"
    /\ UNCHANGED << clock, iter, SWITCH_PIN, pins, phase, now, new_mode,
                    sw_read, caller, updv, drvargs, waits, diag,
                    sw_changed_at, last_fire >>

\* lines 109-111: current_mode = new_mode; phase = 0.0; last_step = now
Commit ==
    /\ pc = "commit"
    /\ current_mode' = new_mode
    /\ phase' = 0
    /\ last_step' = now
    /\ committed' = TRUE
    /\ t0' = now
    /\ transitions' = transitions + 1
    /\ pc' = "off1"
    /\ UNCHANGED << clock, iter, SWITCH_PIN, pins, now, new_mode, sw_read,
                    caller, updv, drvargs, waits, diag,
                    sw_changed_at, last_fire >>

\* both_off(), line 44: IN1.off()
BothOffIN1 ==
    /\ pc = "off1"
    /\ IN1' = 0
    /\ pc' = "off2"
    /\ UNCHANGED << clock, iter, SWITCH_PIN, IN2, globals, loopv, caller,
                    updv, drvargs, waits, diag,
                    transitions, hist >>

\* both_off(), line 45: IN2.off()
BothOffIN2 ==
    /\ pc = "off2"
    /\ IN2' = 0
    /\ pc' = "print"
    /\ UNCHANGED << clock, iter, SWITCH_PIN, IN1, globals, loopv, caller,
                    updv, drvargs, waits, diag,
                    transitions, hist >>

\* line 113: print(f"Mode: {current_mode}")
PrintMode ==
    /\ pc = "print"
    /\ diag' = Append(diag, current_mode)
    /\ pc' = "dispatch"
    /\ UNCHANGED << clock, iter, SWITCH_PIN, pins, globals, loopv, caller,
                    updv, drvargs, waits,
                    transitions, hist >>

\* ------------------------------------------------------- crossfade_update
\* lines 115-116 and 49-70 with delta_ms >= 5: advance the phase, read the
\* pot, compute both on-durations and call alternate_polarity
CrossfadeFire ==
    /\ pc = "dispatch"
    /\ current_mode = 0
    /\ LET t     == TicksMs(clock)
           delta == TicksDiff(t, last_step)
           p1    == phase + delta
           p2    == IF p1 >= crossfade_speed THEN p1 - crossfade_speed ELSE p1
           idx   == phase_to_step(p2)
           inrng == idx \in 0 .. (NUM_STEPS - 1)
           sv    == IF inrng THEN sine_table[idx + 1] ELSE sin_val
           half_period_us == 500000 \div ac_freq
       IN  /\ delta >= CF_GRANULARITY
           /\ upd_now' = t
           /\ last_fire' = t
           /\ phase' = p2
           /\ step' = idx
           \* sine_table[step] with step outside the list: IndexError
           /\ pc' = (IF inrng THEN "drv_warm_on" ELSE "error")
           /\ sin_val' = sv
           /\ warm_linear' = WarmLinear(sv)
           /\ cool_linear' = CoolLinear(sv)
           /\ \E r \in PotReadings :
                /\ pot_raw' = r
                /\ w_on' = OnUs(half_period_us, WarmRatio(WarmLinear(sv)), r)
                /\ c_on' = OnUs(half_period_us, CoolRatio(CoolLinear(sv)), r)
    /\ caller' = "crossfade"
    /\ UNCHANGED << clock, iter, SWITCH_PIN, pins, current_mode, last_step,
                    loopv, waits, diag,
                    transitions, sw_changed_at, t0 >>

\* lines 49-51 with delta_ms < 5: nothing to do
CrossfadeSkip ==
    /\ pc = "dispatch"
    /\ current_mode = 0
    /\ TicksDiff(TicksMs(clock), last_step) < CF_GRANULARITY
    /\ upd_now' = TicksMs(clock)
    /\ caller' = "crossfade"
    /\ pc' = "yield"
    /\ UNCHANGED << clock, iter, SWITCH_PIN, pins, globals, loopv, pot_raw,
                    sin_val, warm_linear, cool_linear, step, drvargs, waits, diag,
                    transitions, hist >>

\* line 71: last_step = now, after alternate_polarity returned
CrossfadeDone ==
    /\ pc = "drv_ret"
    /\ caller = "crossfade"
    /\ last_step' = upd_now
    /\ pc' = "yield"
    /\ UNCHANGED << clock, iter, SWITCH_PIN, pins, current_mode, phase, loopv,
                    caller, updv, drvargs, waits, diag,
                    transitions, hist >>

\* ----------------------------------------------------------- all_on_update
\* variant of AllOnFire: the phase advance of line 52 copied into all_on_update
AllOnFire_AdvancesPhase ==
    /\ pc = "dispatch"
    /\ current_mode = 1
    /\ TicksDiff(TicksMs(clock), last_step) >= AO_GRANULARITY
    /\ upd_now' = TicksMs(clock)
    /\ phase' = phase + TicksDiff(TicksMs(clock), last_step)
    /\ sin_val' = 0
    /\ warm_linear' = WarmLinear(0)
    /\ cool_linear' = CoolLinear(0)
    /\ \E r \in PotReadings :
         /\ pot_raw' = r
         /\ w_on' = OnUs(half_p_us, WarmRatio(WarmLinear(0)), r)
    /\ caller' = "all_on"
    /\ pc' = "error"
    /\ UNCHANGED << clock, iter, SWITCH_PIN, pins, current_mode,
                    last_step, loopv, c_on, step,
                    waits, diag,
                    transitions, hist >>

\* lines 117-118 and 75-86 with delta >= 1: the pot is read, the warm
\* duration is computed, and line 86 reads the name cool_factor, which is
\* bound nowhere in the program: NameError, and the program ends
AllOnFire ==
    /\ pc = "dispatch"
    /\ current_mode = 1
    /\ TicksDiff(TicksMs(clock), last_step) >= AO_GRANULARITY
    /\ upd_now' = TicksMs(clock)
    /\ sin_val' = 0
    /\ warm_linear' = WarmLinear(0)
    /\ cool_linear' = CoolLinear(0)
    /\ \E r \in PotReadings :
         /\ pot_raw' = r
         /\ w_on' = OnUs(half_p_us, WarmRatio(WarmLinear(0)), r)
    /\ caller' = "all_on"
    /\ pc' = "error"
    /\ UNCHANGED << clock, iter, SWITCH_PIN, pins, globals, loopv, c_on, step,
                    waits, diag,
                    transitions, hist >>

\* lines 75-77 with delta < 1: nothing to do
AllOnSkip ==
    /\ pc = "dispatch"
    /\ current_mode = 1
    /\ TicksDiff(TicksMs(clock), last_step) < AO_GRANULARITY
    /\ upd_now' = TicksMs(clock)
    /\ caller' = "all_on"
    /\ pc' = "yield"
    /\ UNCHANGED << clock, iter, SWITCH_PIN, pins, globals, loopv, pot_raw,
                    sin_val, warm_linear, cool_linear, step, drvargs, waits, diag,
                    transitions, hist >>

\* ------------------------------------------------------ alternate_polarity
\* utime.sleep_us(n), then on to nxt.  A negative n is outside what sleep_us
\* is specified for: depending on the build the call returns at once, or the
\* argument is taken as unsigned and the call outlasts the observed run.
SleepUs(n, nxt) ==
    /\ waits' = Append(waits, n)
    /\ \/ n >= 0 /\ clock' = clock + n /\ pc' = nxt
       \/ n < 0 /\ clock' = clock /\ pc' \in {nxt, "hung"}

\* line 93, first statement: IN1.on()
DrvWarmOn ==
    /\ pc = "drv_warm_on"
    /\ IN1' = 1
    /\ waits' = << >>
    /\ pc' = "drv_warm_pulse"
    /\ UNCHANGED << clock, iter, SWITCH_PIN, IN2, globals, loopv, caller,
                    updv, drvargs, diag,
                    transitions, hist >>

\* line 93, second statement, and line 94: IN2.off(); sleep_us(w_on)
DrvWarmPulse ==
    /\ pc = "drv_warm_pulse"
    /\ IN2' = 0
    /\ SleepUs(w_on, "drv_warm_gap")
    /\ UNCHANGED << iter, SWITCH_PIN, IN1, globals, loopv, caller, updv,
                    drvargs, diag,
                    transitions, hist >>

\* variant of DrvWarmGap: the gap sleeps a full half period
DrvWarmGap_FullHalf ==
    /\ pc = "drv_warm_gap"
    /\ IN1' = 0
    /\ SleepUs(half_p_us, "drv_cool_on")
    /\ UNCHANGED << iter, SWITCH_PIN, IN2, globals, loopv, caller, updv,
                    drvargs, diag, transitions, hist >>

\* lines 95-96: IN1.off(); sleep_us(half_p_us - w_on)
DrvWarmGap ==
    /\ pc = "drv_warm_gap"
    /\ IN1' = 0
    /\ SleepUs(half_p_us - w_on, "drv_cool_on")
    /\ UNCHANGED << iter, SWITCH_PIN, IN2, globals, loopv, caller, updv,
                    drvargs, diag,
                    transitions, hist >>

\* line 98, first statement: IN1.off()
DrvCoolOn ==
    /\ pc = "drv_cool_on"
    /\ IN1' = 0
    /\ pc' = "drv_cool_pulse"
    /\ UNCHANGED << clock, iter, SWITCH_PIN, IN2, globals, loopv, caller,
                    updv, drvargs, waits, diag,
                    transitions, hist >>

\* variant of DrvCoolPulse: line 98 energizes IN1 again instead of IN2
DrvCoolPulse_WarmAgain ==
    /\ pc = "drv_cool_pulse"
    /\ IN1' = 1
    /\ SleepUs(c_on, "drv_cool_gap")
    /\ UNCHANGED << iter, SWITCH_PIN, IN2, globals, loopv, caller, updv,
                    drvargs, diag,
                    transitions, hist >>

\* line 98, second statement, and line 99: IN2.on(); sleep_us(c_on)
DrvCoolPulse ==
    /\ pc = "drv_cool_pulse"
    /\ IN2' = 1
    /\ SleepUs(c_on, "drv_cool_gap")
    /\ UNCHANGED << iter, SWITCH_PIN, IN1, globals, loopv, caller, updv,
                    drvargs, diag,
                    transitions, hist >>

\* variant of DrvCoolGap: line 100 (IN2.off()) missing
DrvCoolGap_NoOff ==
    /\ pc = "drv_cool_gap"
    /\ SleepUs(half_p_us - c_on, "drv_ret")
    /\ UNCHANGED << iter, SWITCH_PIN, pins, globals, loopv, caller, updv,
                    drvargs, diag,
                    transitions, hist >>

\* variant of DrvCoolGap: line 100 switches IN1 off instead of IN2
DrvCoolGap_WrongPin ==
    /\ pc = "drv_cool_gap"
    /\ IN1' = 0
    /\ SleepUs(half_p_us - c_on, "drv_ret")
    /\ UNCHANGED << iter, SWITCH_PIN, IN2, globals, loopv, caller, updv,
                    drvargs, diag, transitions, hist >>

\* lines 100-101: IN2.off(); sleep_us(half_p_us - c_on); return
DrvCoolGap ==
    /\ pc = "drv_cool_gap"
    /\ IN2' = 0
    /\ SleepUs(half_p_us - c_on, "drv_ret")
    /\ UNCHANGED << iter, SWITCH_PIN, IN1, globals, loopv, caller, updv,
                    drvargs, diag,
                    transitions, hist >>

\* ------------------------------------------------------------------- yield
\* variant of Yield: sleep_ms(2)
Yield_TwoMs ==
    /\ pc = "yield"
    /\ iter < MaxIter
    /\ iter' = iter + 1
    /\ clock' = clock + 2000
    /\ pc' = "poll"
    /\ UNCHANGED << SWITCH_PIN, pins, globals, loopv, caller, updv, drvargs,
                    waits, diag,
                    transitions, hist >>

\* line 120: utime.sleep_ms(1), then the next iteration
Yield ==
    /\ pc = "yield"
    /\ iter < MaxIter
    /\ iter' = iter + 1
    /\ clock' = clock + 1000 * YIELD_MS
    /\ pc' = "poll"
    /\ UNCHANGED << SWITCH_PIN, pins, globals, loopv, caller, updv, drvargs,
                    waits, diag,
                    transitions, hist >>

Next ==
    \/ SwitchFlip
    \/ Poll \/ Commit \/ BothOffIN1 \/ BothOffIN2 \/ PrintMode
    \/ CrossfadeFire \/ CrossfadeSkip \/ CrossfadeDone
    \/ AllOnFire \/ AllOnSkip
    \/ DrvWarmOn \/ DrvWarmPulse \/ DrvWarmGap
    \/ DrvCoolOn \/ DrvCoolPulse \/ DrvCoolGap
    \/ Yield

Spec == Init /\ [][Next]_vars

\* --------------------------------------- the brightness mapping in isolation
\* The scheduler at line 115 with any phase below a full cycle (or in all-on
\* mode) and an update due, after the granularity or after a long pause;
\* from there one update and one driver call.
InitDuty ==
    /\ pc = "dispatch"
    /\ clock \in {1000 * CF_GRANULARITY, 1000 * LongPause}
    /\ iter = 0
    /\ current_mode \in {0, 1}
    /\ phase \in (IF current_mode = 0 THEN 0 .. (crossfade_speed - 1) ELSE {0})
    /\ last_step = 0
    /\ SWITCH_PIN = 1 - current_mode
    /\ IN1 = 0 /\ IN2 = 0
    /\ now = TicksMs(clock) /\ new_mode = current_mode
    /\ sw_read = SWITCH_PIN /\ committed = FALSE
    /\ caller = "none"
    /\ upd_now = 0 /\ pot_raw = 0 /\ sin_val = 0
    /\ warm_linear = 0 /\ cool_linear = 0
    /\ w_on = 0 /\ c_on = 0
    /\ waits = << >>
    /\ diag = << >>
    /\ transitions = 0
    /\ step = 0
    /\ sw_changed_at = -1
    /\ last_fire = -1
    /\ t0 = 0

NextDuty ==
    \/ CrossfadeFire \/ CrossfadeDone
    \/ AllOnFire
    \/ DrvWarmOn \/ DrvWarmPulse \/ DrvWarmGap
    \/ DrvCoolOn \/ DrvCoolPulse \/ DrvCoolGap

SpecDuty == InitDuty /\ [][NextDuty]_vars

\* ------------------------------------------------- the driver in isolation
\* alternate_polarity called with any pair of durations, in range or not
DriverInputs == {-1, 0, 1, 500, 1000, 1001}

InitDriver ==
    /\ pc = "drv_warm_on"
    /\ w_on \in DriverInputs /\ c_on \in DriverInputs
    /\ clock = 0
    /\ iter = 0
    /\ current_mode = 0 /\ phase = 0 /\ last_step = 0
    /\ SWITCH_PIN = 1
    /\ IN1 = 0 /\ IN2 = 0
    /\ now = 0 /\ new_mode = 0 /\ sw_read = 1 /\ committed = FALSE
    /\ caller = "crossfade"
    /\ upd_now = 0 /\ pot_raw = 0 /\ sin_val = 0
    /\ warm_linear = 0 /\ cool_linear = 0
    /\ waits = << >>
    /\ diag = << >>
    /\ transitions = 0
    /\ step = 0
    /\ sw_changed_at = -1
    /\ last_fire = -1
    /\ t0 = 0

NextDriver ==
    \/ DrvWarmOn \/ DrvWarmPulse \/ DrvWarmGap
    \/ DrvCoolOn \/ DrvCoolPulse \/ DrvCoolGap

SpecDriver == InitDriver /\ [][NextDriver]_vars

\* ------------------------------------------------------------------ helpers
DrvPcs == {"drv_warm_on", "drv_warm_pulse", "drv_warm_gap",
           "drv_cool_on", "drv_cool_pulse", "drv_cool_gap"}

CommitPcs == {"off1", "off2", "print"}

RECURSIVE SumSeq(_)
SumSeq(s) == IF s = << >> THEN 0 ELSE Head(s) + SumSeq(Tail(s))

ModeOfLevel(level) == IF level = 1 THEN 0 ELSE 1

\* the step of alternate_polarity that follows the one at p
DrvSucc(p) ==
    CASE p = "drv_warm_on"    -> "drv_warm_pulse"
      [] p = "drv_warm_pulse" -> "drv_warm_gap"
      [] p = "drv_warm_gap"   -> "drv_cool_on"
      [] p = "drv_cool_on"    -> "drv_cool_pulse"
      [] p = "drv_cool_pulse" -> "drv_cool_gap"
      [] p = "drv_cool_gap"   -> "drv_ret"
      [] OTHER                -> p

\* one step of the crossfade path leaving line 115
CrossfadeTick == pc = "dispatch" /\ current_mode = 0 /\ pc' # "dispatch"

\* the all-on update of this iteration passed its delta >= 1 test
AllOnFired ==
    /\ caller = "all_on"
    /\ pc # "poll"
    /\ TicksDiff(upd_now, last_step) >= AO_GRANULARITY

\* ------------------------------------------------------------------- claims

\* C1: in every reachable state, observed after each individual pin write,
\* at most one of the two output lines IN1 (warm) and IN2 (cool) is energized.
C1_MutualExclusion == ~(IN1 = 1 /\ IN2 = 1)

\* C1 witness: the cool line is energized inside a driver call that follows
\* an earlier complete driver call and a mode transition.
C1_Witness ==
    /\ pc = "drv_cool_gap" /\ IN2 = 1 /\ IN1 = 0
    /\ transitions >= 2
    /\ last_step > 0

\* C2: when the polled mode differs from current_mode, then before the update
\* path of that iteration is dispatched current_mode is the polled mode,
\* phase is 0, last_step is that iteration's timestamp and both lines are off.
C2_TransitionReset ==
    /\ pc \in CommitPcs =>
          /\ current_mode = new_mode /\ phase = 0 /\ last_step = now
    /\ (committed /\ pc = "dispatch") =>
          /\ current_mode = new_mode /\ phase = 0 /\ last_step = now
          /\ IN1 = 0 /\ IN2 = 0

\* C2 witness: a flip out of crossfade mode committed mid-cycle (the last
\* crossfade update had left a non-zero phase), about to dispatch.
C2_Witness ==
    /\ committed /\ pc = "dispatch"
    /\ current_mode = 1 /\ transitions = 1
    /\ sin_val # 0 /\ upd_now > 0

\* C3 (as claimed): the dispatched update path never ends in an error; the
\* program has no error state.
C3_NoErrorState == pc # "error"

\* C4: the on-durations passed to the driver lie in 0 .. half_p_us, and no
\* busy-wait argument of a driver call is negative.
C4_DutyBound ==
    pc \in DrvPcs \cup {"drv_ret"} =>
        /\ w_on \in 0 .. half_p_us
        /\ c_on \in 0 .. half_p_us
        /\ \A i \in 1 .. Len(waits) : waits[i] >= 0

\* C4 witness: a driver call completed with the warm duration at the very
\* top of the range (peak of the sine, pot at full scale or above).
C4_Witness ==
    /\ pc = "drv_ret" /\ w_on = half_p_us /\ pot_raw = ADC_MAX
    /\ Len(waits) = 4

\* C5: the four busy-waits of one driver call add up to 2 * half_p_us.
C5_CycleTime ==
    pc = "drv_ret" => (Len(waits) = 4 /\ SumSeq(waits) = 2 * half_p_us)

\* C5 witness: a completed driver call with an uneven, non-trivial split.
C5_Witness ==
    /\ pc = "drv_ret"
    /\ w_on > 0 /\ c_on > 0 /\ w_on # c_on /\ w_on < half_p_us

\* C6 (as claimed): at the peak of the oscillation (value 1.0) with the pot
\* at full scale, warm_us is in 920..930 and cool_us in 3..8.
C6_PeakWarm ==
    (pc \in DrvPcs /\ sin_val = SCALE /\ pot_raw = POT_FULL) =>
        (w_on \in 920 .. 930 /\ c_on \in 3 .. 8)

\* C7 (as claimed): an all-on update that fires uses oscillation value 0 with
\* warm_linear = cool_linear = 0.5 and emits one alternation cycle with
\* floor(half * 0.5^1.5 * pot) and floor(half * 0.5^1.5 * 0.45 * pot).
C7_AllOnBlend ==
    AllOnFired =>
        /\ sin_val = 0
        /\ warm_linear = SCALE \div 2 /\ cool_linear = SCALE \div 2
        /\ pc \in DrvPcs \cup {"drv_ret", "yield"}
        /\ w_on = OnUs(half_p_us, PowGamma(SCALE \div 2), pot_raw)
        /\ c_on = OnUs(half_p_us,
                       RoundDiv(PowGamma(SCALE \div 2) * 4500, SCALE), pot_raw)

\* C8: the warm linear ratio at v equals the cool linear ratio at -v; at
\* v = 0 the two linear ratios are equal, and with the pot at full scale the
\* cool duration is strictly below the warm duration.
C8_Symmetry ==
    caller # "none" =>
        /\ warm_linear = CoolLinear(0 - sin_val)
        /\ cool_linear = WarmLinear(0 - sin_val)
        /\ sin_val = 0 => warm_linear = cool_linear
        /\ (sin_val = 0 /\ pot_raw = POT_FULL /\ pc \in DrvPcs) => c_on < w_on

\* C8 witness: a crossfade update at oscillation value 0, pot at full scale.
C8_Witness ==
    /\ caller = "crossfade" /\ pc = "drv_warm_on"
    /\ sin_val = 0 /\ pot_raw = POT_FULL
    /\ warm_linear = cool_linear /\ c_on < w_on

\* C9: after the poll of an iteration current_mode is the mode of the level
\* read in that iteration (HIGH: 0, LOW: 1), and the update path that runs in
\* that iteration is the one of that mode.
C9_PolledModeDispatched ==
    pc \notin {"poll", "commit"} =>
        /\ new_mode = ModeOfLevel(sw_read)
        /\ current_mode = new_mode
        /\ caller = "crossfade" => new_mode = 0
        /\ caller = "all_on" => new_mode = 1

\* C9 witness: the all-on path was dispatched in the very iteration that read
\* LOW, after the mode had been crossfade, all-on and crossfade before.
C9_Witness ==
    /\ caller = "all_on" /\ pc = "yield"
    /\ sw_read = 0 /\ committed
    /\ transitions = 3

\* C10: one diagnostic per committed transition, carrying the new mode; none
\* in an iteration whose polled mode equals current_mode.
C10_DiagPerTransition ==
    /\ Len(diag) = transitions - (IF pc \in CommitPcs THEN 1 ELSE 0)
    /\ (committed /\ pc \notin CommitPcs) =>
          (diag # << >> /\ diag[Len(diag)] = new_mode)
    /\ \A i \in 1 .. Len(diag) : diag[i] = i % 2

\* C10 witness: an iteration without transition, two transitions and two
\* diagnostics behind it.
C10_Witness ==
    /\ pc = "yield" /\ ~committed
    /\ transitions = 2 /\ diag = << 1, 0 >>

\* C11 (as claimed): the linear ratio of each channel, before gamma, lies in
\* [0.05, 0.95] for every oscillation value and never reaches 1.0.
C11_LinearBound ==
    caller # "none" =>
        /\ warm_linear >= 500 /\ warm_linear <= 9500
        /\ cool_linear >= 500 /\ cool_linear <= 9500

\* a step taken while alternate_polarity runs is the driver's next step (or
\* the switch being thrown) and leaves the scheduler's variables alone
DrvStepInOrder ==
    pc \in DrvPcs =>
        (/\ pc' \in {pc, DrvSucc(pc)}
         /\ UNCHANGED << current_mode, phase, last_step, now, new_mode,
                         sw_read, upd_now, transitions, w_on, c_on >>)

\* C12: a driver call goes through warm on, warm gap, cool on, cool gap in
\* this order and nothing else happens in between: no poll, no transition,
\* no change of phase or timestamps; from every driver step the next one can
\* be taken, up to the return.
C12_DriverOrder ==
    /\ [](/\ pc = "drv_warm_pulse" => (IN1 = 1)
          /\ pc = "drv_warm_gap" => (IN1 = 1 /\ IN2 = 0 /\ waits = << w_on >>)
          /\ pc \in {"drv_cool_on", "drv_cool_pulse"} =>
                (IN1 = 0 /\ IN2 = 0 /\ waits = << w_on, half_p_us - w_on >>)
          /\ pc = "drv_cool_gap" =>
                (IN1 = 0 /\ IN2 = 1
                 /\ waits = << w_on, half_p_us - w_on, c_on >>)
          /\ pc = "drv_ret" =>
                (IN1 = 0 /\ IN2 = 0
                 /\ waits = << w_on, half_p_us - w_on, c_on, half_p_us - c_on >>)
          /\ pc \in DrvPcs =>
                ENABLED (\/ DrvWarmOn \/ DrvWarmPulse \/ DrvWarmGap
                         \/ DrvCoolOn \/ DrvCoolPulse \/ DrvCoolGap))
    /\ [][DrvStepInOrder]_vars

\* C12 witness: a driver call returned although the switch was thrown while
\* it ran.
C12_Witness ==
    /\ pc = "drv_ret" /\ Len(waits) = 4
    /\ SWITCH_PIN # sw_read
    /\ sw_changed_at > 1000 * now

\* C13 (as claimed): a change of the switch level is committed at the next
\* poll, at most 2 * half_p_us (2 ms) after the change.
C13_LatencyPulsePair ==
    [][(pc = "poll" /\ pc' # "poll" /\ sw_changed_at >= 0) =>
          (pc' = "commit" /\ clock - sw_changed_at <= 2 * half_p_us)]_vars

\* C13 (amended): a change of the switch level still present at the next
\* poll is committed at that poll, at most one pulse pair plus the yield
\* (2 * half_p_us + 1 ms) after the change.
C13_LatencyPulsePairAndYield ==
    [][(pc = "poll" /\ pc' # "poll" /\ sw_changed_at >= 0) =>
          (pc' = "commit" /\ clock - sw_changed_at <= 2 * half_p_us + 1000)]_vars

\* C13 witness: the poll is about to see a change that happened a pulse pair
\* and a yield ago.
C13_Witness ==
    /\ pc = "poll" /\ iter > 0
    /\ sw_changed_at >= 0
    /\ clock - sw_changed_at = 2 * half_p_us + 1000

\* C14 (as claimed): the crossfade update fires only when more than 5 ms have
\* elapsed since the last update; a tick that does not fire leaves phase,
\* last_step and both lines alone.
C14_FiresAbove5 ==
    [][CrossfadeTick =>
          (IF pc' = "yield"
           THEN UNCHANGED << phase, last_step, IN1, IN2 >>
           ELSE (TicksDiff(TicksMs(clock), last_step) > 5)
                /\ (last_fire >= 0 => upd_now' - last_fire >= 5))]_vars

\* C14 (amended): the crossfade update fires only when at least 5 ms have
\* elapsed since the last update; a tick that does not fire leaves phase,
\* last_step and both lines alone; two consecutive recomputations are at
\* least 5 ms apart.
C14_FiresFrom5 ==
    [][CrossfadeTick =>
          (IF pc' = "yield"
           THEN UNCHANGED << phase, last_step, IN1, IN2 >>
           ELSE (TicksDiff(TicksMs(clock), last_step) >= 5)
                /\ (last_fire >= 0 => upd_now' - last_fire >= 5))]_vars

\* C14 witness: an update fired exactly 5 ms after the previous one.
C14_Witness ==
    /\ pc = "drv_warm_on" /\ caller = "crossfade"
    /\ transitions = 0 /\ last_step > 0
    /\ upd_now - last_step = 5

\* C15 (as claimed): the phase is in [0, 2*pi) in every reachable state.
C15_PhaseRange == phase >= 0 /\ phase < crossfade_speed

\* C16 (as claimed): after a crossfade update at time t the phase is
\* 2*pi * ((t - T0) mod 5000) / 5000, T0 the time phase was last set to 0.
C16_PhaseTracksTime ==
    (caller = "crossfade" /\ pc \in DrvPcs \cup {"drv_ret"}) =>
        phase = (upd_now - t0) % crossfade_speed

\* C17: the table has NUM_STEPS entries; the index computed for any phase
\* the crossfade path holds is in 0 .. NUM_STEPS-1 and the lookup succeeds;
\* only the crossfade path reads the table.
C17_TableIndex ==
    /\ [](/\ Len(sine_table) = NUM_STEPS
          /\ step \in 0 .. (NUM_STEPS - 1)
          /\ (caller = "crossfade" /\ pc \in DrvPcs) =>
                (step = ((phase % crossfade_speed) * NUM_STEPS) \div crossfade_speed
                 /\ sin_val = sine_table[step + 1])
          /\ caller = "crossfade" => pc # "error")
    /\ [][step' # step => (pc = "dispatch" /\ current_mode = 0)]_vars

\* C17 witness: a lookup made with a phase beyond a full cycle.
C17_Witness ==
    /\ caller = "crossfade" /\ pc = "drv_warm_on"
    /\ phase >= crossfade_speed
    /\ step > 0

\* C18 (as claimed): whatever the two durations passed to the driver, no
\* busy-wait it requests has a negative duration.
C18_DriverClamps == \A i \in 1 .. Len(waits) : waits[i] >= 0

\* C19: only the crossfade update and the transition reset write phase; in
\* all-on mode the phase is 0, and every change of mode leaves phase 0.
C19_PhaseOwnership ==
    /\ [](current_mode = 1 => phase = 0)
    /\ [][phase' # phase =>
            (pc = "commit" \/ (pc = "dispatch" /\ current_mode = 0))]_vars
    /\ [][current_mode' # current_mode => phase' = 0]_vars

\* C19 witness: the all-on path ran (and skipped) after a flip that came in
\* the middle of a crossfade cycle, and crossfade mode was entered again.
C19_Witness ==
    /\ current_mode = 0 /\ transitions = 2 /\ committed
    /\ pc = "dispatch" /\ phase = 0
    /\ last_fire >= 0 /\ last_fire < t0

\* C20: a line is energized only inside a driver call: at every poll, during
\* every yield and on every tick between two crossfade updates both are off.
C20_DarkOutsideDriver ==
    (IN1 = 1 \/ IN2 = 1) => pc \in DrvPcs

\* C20 witness: a crossfade tick that skipped, between two updates, dark.
C20_Witness ==
    /\ pc = "yield" /\ caller = "crossfade"
    /\ IN1 = 0 /\ IN2 = 0
    /\ last_fire >= 0 /\ last_step = last_fire
    /\ upd_now - last_step \in 1 .. 4

====
